---- MODULE Spec2Model ----
(***************************************************************************)
(* A model of scvelo's neighbor-graph helpers (scvelo/tools/utils.py):     *)
(* get_indices, get_iterative_indices, geometric_matrix_sum and            *)
(* groups_to_bool, and of its preprocessing helpers                        *)
(* (scvelo/preprocessing/utils.py): filter_genes, filter_genes_dispersion  *)
(* and cleanup.  Every function is a call and return, so each has          *)
(* a specification of its own whose initial states draw the caller's data  *)
(* from bounded sets and whose actions are calls of the function.          *)
(*                                                                         *)
(* Conventions.  Python's None is the empty tuple << >> and a given        *)
(* optional argument v is the one-element tuple << v >>.  numpy arrays are *)
(* sequences; an offset into an array is 0-based as in the code, and the   *)
(* TLA+ position of offset o is o + 1.  Distances are integers counted in  *)
(* units of the shift 1e-6 that get_indices adds and subtracts.            *)
(***************************************************************************)
EXTENDS Integers, Sequences, FiniteSets, TLC

VARIABLES
    dist,          \* get_indices: the caller's sparse distance matrix (CSR)
    n_neighbors,   \* get_indices: the requested neighbor count of the call
    gi,            \* get_indices: what get_indices(dist, n_neighbors) returned
    gi2,           \* get_indices: what get_indices(gi.D, n_neighbors) returned
    indices,       \* get_iterative_indices: the caller's neighbor-index table
    index,         \* get_iterative_indices: the seed cell of the call
    n_recurse_neighbors,  \* get_iterative_indices: the depth of the call
    max_neighs,    \* get_iterative_indices: the cap of the call
    it,            \* get_iterative_indices: what the call returned
    C,             \* geometric_matrix_sum: the caller's square matrix
    n_power,       \* geometric_matrix_sum: the power of the call
    gms,           \* geometric_matrix_sum: what the call returned
    adata,         \* groups_to_bool: the container (its per-cell table obs)
    groups,        \* groups_to_bool: the requested group names
    groupby,       \* groups_to_bool: the requested grouping attribute
    gtb,           \* groups_to_bool: what the call returned or raised
    fg_data,       \* filter_genes: the caller's container
    fg_call,       \* filter_genes: the arguments of the call
    fg,            \* filter_genes: what the call returned
    fgd_data,      \* filter_genes_dispersion: the caller's container
    fgd_call,      \* filter_genes_dispersion: the arguments of the call
    fgd,           \* filter_genes_dispersion: what the call returned
    cu_data,       \* cleanup: the caller's container
    cu_call,       \* cleanup: the arguments of the call
    cu             \* cleanup: what the call returned

gi_vars == <<dist, n_neighbors, gi, gi2>>
it_vars == <<indices, index, n_recurse_neighbors, max_neighs, it>>
gms_vars == <<C, n_power, gms>>
gtb_vars == <<adata, groups, groupby, gtb>>
fg_vars == <<fg_data, fg_call, fg>>
fgd_vars == <<fgd_data, fgd_call, fgd>>
cu_vars == <<cu_data, cu_call, cu>>
pp_vars == <<fg_vars, fgd_vars, cu_vars>>
vars == <<gi_vars, it_vars, gms_vars, gtb_vars, pp_vars>>

(***************************************************************************)
(* Bounds of the model.                                                    *)
(***************************************************************************)
NCells == 2     \* rows (cells) of the distance matrix
MaxDeg == 2     \* most stored entries in one row
MaxDist == 1    \* largest stored distance, in units of EPS
MaxK == 2       \* largest requested n_neighbors
NTab == 3       \* cells (rows) of the neighbor-index table
Width == 2      \* columns of the neighbor-index table
MaxDepth == 2   \* largest n_recurse_neighbors
MaxCap == 2     \* largest max_neighs
Dim == 2        \* rows and columns of the matrix C
MaxEntry == 1   \* largest entry of C
MaxPower == 6   \* largest n_power
NObs == 2       \* cells of the container

(***************************************************************************)
(* Generic helpers for optional values, arrays and minima.                 *)
(***************************************************************************)
None == << >>
Some(v) == << v >>

RECURSIVE SumSeq(_)
SumSeq(s) == IF s = << >> THEN 0 ELSE s[1] + SumSeq(Tail(s))

RECURSIVE Flatten(_)
Flatten(ss) == IF ss = << >> THEN << >> ELSE ss[1] \o Flatten(Tail(ss))

MinOf(S) == CHOOSE m \in S : \A x \in S : m <= x

Range(s) == {s[j] : j \in DOMAIN s}

\* n_counts.cumsum() with a 0 inserted in front: 0-based row offsets.
CumSum0(counts) ==
    [i \in 1..(Len(counts) + 1) |-> SumSeq(SubSeq(counts, 1, i - 1))]

(***************************************************************************)
(* Sparse matrices in CSR form: row i (1-based) owns the array positions   *)
(* indptr[i] + 1 .. indptr[i + 1] of indices (columns) and data (values).  *)
(***************************************************************************)
NCols == MaxDeg + 1

\* The j-th stored entry of row i sits in the column of the j-th cell after
\* cell i, cyclically: a neighbor graph without self loops.
ColOf(i, j) == (i - 1 + j) % NCols

CsrOfRows(rowvals) ==
    [indptr  |-> CumSum0([i \in DOMAIN rowvals |-> Len(rowvals[i])]),
     indices |-> Flatten([i \in DOMAIN rowvals |->
                            [j \in DOMAIN rowvals[i] |-> ColOf(i, j)]]),
     data    |-> Flatten(rowvals)]

NRows(M) == Len(M.indptr) - 1
RowSlots(M, i) == (M.indptr[i] + 1)..M.indptr[i + 1]
RowDeg(M, i) == M.indptr[i + 1] - M.indptr[i]

RowVals == UNION {[1..d -> 0..MaxDist] : d \in 0..MaxDeg}
DistMatrices == {CsrOfRows(rv) : rv \in [1..NCells -> RowVals]}

(***************************************************************************)
(* The state of a function that a specification does not exercise.         *)
(***************************************************************************)
NotCalled == [status |-> "none", indices |-> None, D |-> None]

IdleGI ==
    /\ dist = CsrOfRows([i \in 1..NCells |-> << >>])
    /\ n_neighbors = None
    /\ gi = NotCalled
    /\ gi2 = NotCalled

IdleIT ==
    /\ indices = << >>
    /\ index = 0
    /\ n_recurse_neighbors = 0
    /\ max_neighs = None
    /\ it = [status |-> "none", indices |-> None]

IdleGMS ==
    /\ C = << >>
    /\ n_power = 0
    /\ gms = [status |-> "none", value |-> None]

IdleGTB ==
    /\ adata = [obs |-> << >>]
    /\ groups = {}
    /\ groupby = None
    /\ gtb = [status |-> "none", value |-> None]

IdleFG ==
    /\ fg_data = None
    /\ fg_call = None
    /\ fg = [status |-> "none", value |-> None]

IdleFGD ==
    /\ fgd_data = None
    /\ fgd_call = None
    /\ fgd = [status |-> "none", value |-> None]

IdleCU ==
    /\ cu_data = None
    /\ cu_call = None
    /\ cu = [status |-> "none", value |-> None]

IdleTools == IdleGI /\ IdleIT /\ IdleGMS /\ IdleGTB
IdlePP == IdleFG /\ IdleFGD /\ IdleCU

(***************************************************************************)
(* get_indices(dist, n_neighbors, mode_neighbors = "distances").           *)
(***************************************************************************)
EPS == 1

\* D.data += 1e-6, with the addition forgotten
AddEps_forgotten(data) == data

\* D.data += 1e-6
AddEps(data) == [j \in DOMAIN data |-> data[j] + EPS]

\* D.data -= 1e-6, with the subtraction forgotten
SubEps_forgotten(data) == data

\* D.data -= 1e-6
SubEps(data) == [j \in DOMAIN data |-> data[j] - EPS]

\* n_counts = sum(D > 0, axis=1): per row, the stored entries that are > 0
NCountsOf(D) ==
    [i \in 1..NRows(D) |-> Cardinality({j \in RowSlots(D, i) : D.data[j] > 0})]

\* n_counts.min() if n_neighbors is None else min(n_counts.min(), n_neighbors)
EffNeighbors(n_counts, n) ==
    LET least == MinOf(Range(n_counts))
    IN  IF n = None THEN least ELSE IF least < n[1] THEN least ELSE n[1]

Perms(n) == {p \in [1..n -> 1..n] : \A a, b \in 1..n : a # b => p[a] # p[b]}

\* argsort ranking the largest value first
ArgSorts_descending(seg) ==
    {p \in Perms(Len(seg)) :
        \A a, b \in 1..Len(seg) : a < b => seg[p[a]] >= seg[p[b]]}

\* ndarray.argsort() with numpy's default kind, which is not a stable sort:
\* any permutation that puts the values in ascending order; the order among
\* equal values is unspecified.  Positions are 1-based here.
ArgSorts(seg) ==
    {p \in Perms(Len(seg)) :
        \A a, b \in 1..Len(seg) : a < b => seg[p[a]] <= seg[p[b]]}

\* rm_idx = n0 + dat[n0:n1].argsort()[n_neighbors:]; dat[rm_idx] = 0
PruneRow(dat, n0, n1, k, p) ==
    [j \in DOMAIN dat |->
        IF \E r \in (k + 1)..(n1 - n0) : j = n0 + p[r] THEN 0 ELSE dat[j]]

\* for row in rows: ... with rows = np.where(n_counts > n_neighbors)[0];
\* the set of arrays dat the loop can end with, from row `row` on.
RECURSIVE PruneFrom(_, _, _, _, _)
PruneFrom(dat, row, n_counts, cumsum_neighs, k) ==
    IF row > Len(n_counts) THEN {dat}
    ELSE IF n_counts[row] > k
    THEN LET n0 == cumsum_neighs[row]
             n1 == cumsum_neighs[row + 1]
         IN  UNION {PruneFrom(PruneRow(dat, n0, n1, k, p), row + 1,
                              n_counts, cumsum_neighs, k) :
                        p \in ArgSorts(SubSeq(dat, n0 + 1, n1))}
    ELSE PruneFrom(dat, row + 1, n_counts, cumsum_neighs, k)

\* the positions lo..hi whose value is not zero, in storage order
RECURSIVE KeepFrom(_, _, _)
KeepFrom(dat, lo, hi) ==
    IF lo > hi THEN << >>
    ELSE (IF dat[lo] # 0 THEN <<lo>> ELSE << >>) \o KeepFrom(dat, lo + 1, hi)

\* D.eliminate_zeros(): drop the stored entries whose value is zero
EliminateZeros(M) ==
    LET kept == [i \in 1..NRows(M) |->
                    KeepFrom(M.data, M.indptr[i] + 1, M.indptr[i + 1])]
        flat == Flatten(kept)
    IN  [indptr  |-> CumSum0([i \in 1..NRows(M) |-> Len(kept[i])]),
         indices |-> [j \in DOMAIN flat |-> M.indices[flat[j]]],
         data    |-> [j \in DOMAIN flat |-> M.data[flat[j]]]]

\* ndarray.reshape((-1, k)) raises ValueError unless k > 0 divides the size
CanReshape(arr, k) == k > 0 /\ Len(arr) % k = 0
Reshape(arr, k) ==
    [r \in 1..(Len(arr) \div k) |-> SubSeq(arr, (r - 1) * k + 1, r * k)]

\* lines 113-123 of get_indices in mode "distances": shift back, reshape
FinishIndices(Dz, k) ==
    LET D == [Dz EXCEPT !.data = SubEps(Dz.data)]
    IN  IF CanReshape(D.indices, k)
        THEN [status |-> "ok", indices |-> Reshape(D.indices, k), D |-> D]
        ELSE [status |-> "ValueError", indices |-> None, D |-> None]

\* The possible outcomes of get_indices(M, n) in mode "distances".
GetIndices(M, n) ==
    LET D0 == [M EXCEPT !.data = AddEps(M.data)]
        n_counts == NCountsOf(D0)
        k == EffNeighbors(n_counts, n)
        cumsum_neighs == CumSum0(n_counts)
    IN  {FinishIndices(EliminateZeros([D0 EXCEPT !.data = dat]), k) :
            dat \in PruneFrom(D0.data, 1, n_counts, cumsum_neighs, k)}

\* the matrix the caller passed, after the call, had line 96 been D = dist:
\* D and the caller's matrix would be one object, pruned in place
CallersMatrix_aliased(M, r) == IF r.status = "ok" THEN r.D ELSE M

\* the matrix the caller passed, after the call with outcome r: line 96 makes
\* D a copy, so the changes of D.data and the elimination of the pruned
\* entries (lines 97, 110, 111, 113) do not reach the caller's object
CallersMatrix(M, r) == M

KArgs == {None} \cup {Some(k) : k \in 1..MaxK}

InitGI ==
    /\ dist \in DistMatrices
    /\ n_neighbors = None
    /\ gi = NotCalled
    /\ gi2 = NotCalled
    /\ IdleIT /\ IdleGMS /\ IdleGTB /\ IdlePP

\* indices, D = get_indices(dist, n)
CallGetIndices ==
    /\ gi.status = "none"
    /\ \E n \in KArgs :
        /\ n_neighbors' = n
        /\ gi' \in GetIndices(dist, n)
    /\ dist' = CallersMatrix(dist, gi')
    /\ UNCHANGED <<gi2, it_vars, gms_vars, gtb_vars, pp_vars>>

\* get_indices(D, n) on the matrix the first call returned
CallGetIndicesAgain ==
    /\ gi.status = "ok"
    /\ gi2.status = "none"
    /\ gi2' \in GetIndices(gi.D, n_neighbors)
    /\ gi' = [gi EXCEPT !.D = CallersMatrix(gi.D, gi2')]
    /\ UNCHANGED <<dist, n_neighbors, it_vars, gms_vars, gtb_vars, pp_vars>>

NextGI == CallGetIndices \/ CallGetIndicesAgain

SpecGI == InitGI /\ [][NextGI]_vars

(***************************************************************************)
(* Properties of get_indices, checked under SpecGI.                        *)
(***************************************************************************)
Called == gi.status # "none"
Uniform(M, d) == \A i \in 1..NRows(M) : RowDeg(M, i) = d
ValAt(M, i, j) == M.data[M.indptr[i] + j]
ColAt(M, i, j) == M.indices[M.indptr[i] + j]
MinDeg(M) == MinOf({RowDeg(M, i) : i \in 1..NRows(M)})

\* the storage positions of row i of M that are still stored in row i of R,
\* with the distance they had in M
KeptPos(M, R, i) ==
    {j \in 1..RowDeg(M, i) :
        \E s \in 1..RowDeg(R, i) :
            ColAt(R, i, s) = ColAt(M, i, j) /\ ValAt(R, i, s) = ValAt(M, i, j)}

\* the k positions of row i that come first by distance, then storage order
StableFirst(M, i, k) ==
    {j \in 1..RowDeg(M, i) :
        Cardinality({h \in 1..RowDeg(M, i) :
            \/ ValAt(M, i, h) < ValAt(M, i, j)
            \/ ValAt(M, i, h) = ValAt(M, i, j) /\ h < j}) < k}

C2_FixedWidthResult ==
    Called =>
        LET keff == IF n_neighbors = None \/ MinDeg(dist) < n_neighbors[1]
                    THEN MinDeg(dist) ELSE n_neighbors[1]
        IN  /\ gi.status = "ok"
            /\ \A i \in 1..NCells : RowDeg(gi.D, i) = keff
            /\ Len(gi.indices) = NCells
            /\ \A i \in 1..NCells :
                /\ Len(gi.indices[i]) = keff
                /\ \A s \in 1..keff : gi.indices[i][s] = ColAt(gi.D, i, s)

\* C3: pruning the pruned matrix again with the same n_neighbors returns
\* the same matrix (positions and values) and the same index matrix.
C3_Idempotent ==
    gi2.status # "none" =>
        /\ gi2.status = "ok"
        /\ gi2.D = gi.D
        /\ gi2.indices = gi.indices

\* the second call was made on a matrix the first call really pruned
C3_Witness ==
    /\ gi2.status = "ok"
    /\ \E i \in 1..NCells : RowDeg(gi.D, i) < RowDeg(dist, i)

(***************************************************************************)
(* get_iterative_indices(indices, index, n_recurse_neighbors, max_neighs). *)
(* Cells are 0 .. NTab - 1; NaN pads the rows of a neighbor table that     *)
(* have fewer neighbors than the table is wide (get_indices_from_csr).     *)
(***************************************************************************)
NaN == -1
CellIds == 0..(NTab - 1)

RECURSIVE SortedSeqOf(_)
SortedSeqOf(S) ==
    IF S = {} THEN << >> ELSE <<MinOf(S)>> \o SortedSeqOf(S \ {MinOf(S)})

\* ixs[i, :len(cell_indices)] = cell_indices on a row of NaN: the neighbors
\* of a cell in ascending order, then the padding
TableRow(S) == SortedSeqOf(S) \o [j \in 1..(Width - Cardinality(S)) |-> NaN]
TableRows == {TableRow(S) : S \in {T \in SUBSET CellIds : Cardinality(T) <= Width}}
Tables == [1..NTab -> TableRows]

\* indices[index]: the rows of the cells in ix, one after the other
RowsOf(tab, ix) == Flatten([j \in 1..Len(ix) |-> tab[ix[j] + 1]])

IsNumber(x) == x # NaN

\* iterate_indices that forgets the cells it started from
RECURSIVE IterateIndices_neighbors_only(_, _, _)
IterateIndices_neighbors_only(tab, ix0, n) ==
    LET ix1 == IF n > 1 THEN IterateIndices_neighbors_only(tab, ix0, n - 1)
               ELSE ix0
    IN  SelectSeq(RowsOf(tab, ix1), IsNumber)

\* iterate_indices that does not recurse
IterateIndices_one_hop(tab, ix0, n) ==
    SelectSeq(ix0 \o RowsOf(tab, ix0), IsNumber)

\* iterate_indices: ix0 is the seed as a one-element array
RECURSIVE IterateIndices(_, _, _)
IterateIndices(tab, ix0, n) ==
    LET ix1 == IF n > 1 THEN IterateIndices(tab, ix0, n - 1) ELSE ix0
        ix == ix1 \o RowsOf(tab, ix1)
    IN  SelectSeq(ix, IsNumber)

\* np.unique: the distinct values in ascending order
Unique(ix) == SortedSeqOf(Range(ix))

\* np.random.choice(a, size) drawing with replacement
RandomChoice_replace(a, size) == [1..size -> Range(a)]

\* np.random.choice(a, size, replace=False): any size distinct elements of
\* a in any order
RandomChoice(a, size) ==
    {c \in [1..size -> Range(a)] :
        \A x, y \in 1..size : x # y => c[x] # c[y]}

\* The possible return values of get_iterative_indices.
GetIterativeIndices(tab, seed, n, cap) ==
    LET u == Unique(IterateIndices(tab, <<seed>>, n))
    IN  IF cap # None /\ Len(u) > cap[1] THEN RandomChoice(u, cap[1]) ELSE {u}

InitIT ==
    /\ IdleGI /\ IdleGMS /\ IdleGTB /\ IdlePP
    /\ indices \in Tables
    /\ index = 0
    /\ n_recurse_neighbors = 0
    /\ max_neighs = None
    /\ it = [status |-> "none", indices |-> None]

\* get_iterative_indices(indices, seed, n): max_neighs is left None
CallGetIterativeIndices ==
    /\ it.status = "none"
    /\ \E seed \in CellIds, n \in 1..MaxDepth :
        /\ index' = seed
        /\ n_recurse_neighbors' = n
        /\ max_neighs' = None
        /\ \E r \in GetIterativeIndices(indices, seed, n, None) :
            it' = [status |-> "ok", indices |-> r]
    /\ UNCHANGED <<indices, gi_vars, gms_vars, gtb_vars, pp_vars>>

NextIT == CallGetIterativeIndices

SpecIT == InitIT /\ [][NextIT]_vars

\* The capped calls are made on the tables get_indices returns in mode
\* "distances" (D.indices reshaped): every row full, no padding.
FullTables ==
    [1..NTab -> {TableRow(S) : S \in {T \in SUBSET CellIds : Cardinality(T) = Width}}]

InitCap ==
    /\ IdleGI /\ IdleGMS /\ IdleGTB /\ IdlePP
    /\ indices \in FullTables
    /\ index = 0
    /\ n_recurse_neighbors = 0
    /\ max_neighs = None
    /\ it = [status |-> "none", indices |-> None]

\* get_iterative_indices(indices, seed, n, max_neighs = cap)
CallGetIterativeIndicesCapped ==
    /\ it.status = "none"
    /\ \E seed \in CellIds, n \in 1..MaxDepth, cap \in 1..MaxCap :
        /\ index' = seed
        /\ n_recurse_neighbors' = n
        /\ max_neighs' = Some(cap)
        /\ \E r \in GetIterativeIndices(indices, seed, n, Some(cap)) :
            it' = [status |-> "ok", indices |-> r]
    /\ UNCHANGED <<indices, gi_vars, gms_vars, gtb_vars, pp_vars>>

NextCap == CallGetIterativeIndicesCapped

SpecCap == InitCap /\ [][NextCap]_vars

(***************************************************************************)
(* Properties of get_iterative_indices, checked under SpecIT.              *)
(***************************************************************************)
Neighbors(tab, a) == {b \in CellIds : \E c \in 1..Width : tab[a + 1][c] = b}

\* the cells at most n neighbor-table edges away from the seed
RECURSIVE Within(_, _, _)
Within(tab, seed, n) ==
    IF n = 0 THEN {seed}
    ELSE LET W == Within(tab, seed, n - 1)
         IN  W \cup UNION {Neighbors(tab, a) : a \in W}

NoDuplicates(ix) == \A x, y \in 1..Len(ix) : x # y => ix[x] # ix[y]
Uncapped == it.status = "ok" /\ max_neighs = None

\* C4: without a cap the result is exactly the set of cells reachable from
\* the seed over at most n_recurse_neighbors edges, the seed included, has
\* no duplicates and holds no NaN.
C4_ClosureIsReachableSet ==
    Uncapped =>
        /\ Range(it.indices) = Within(indices, index, n_recurse_neighbors)
        /\ NoDuplicates(it.indices)
        /\ NaN \notin Range(it.indices)

\* a depth-2 call over a padded table found a cell that is no direct
\* neighbor of the seed
C4_Witness ==
    /\ Uncapped
    /\ n_recurse_neighbors = 2
    /\ \E a \in 1..NTab : NaN \in Range(indices[a])
    /\ \E b \in Range(it.indices) :
        b # index /\ b \notin Neighbors(indices, index)

\* C5 as stated: at depth 1 without a cap the result is exactly the
\* non-NaN entries of the seed's row and nothing else.
C5_DepthOneIsNeighborSet ==
    (Uncapped /\ n_recurse_neighbors = 1)
    => Range(it.indices) = Neighbors(indices, index)

\* C5 as amended: at depth 1 without a cap the result is exactly the seed
\* together with the non-NaN entries of the seed's row.
C5_DepthOneIsSeedAndNeighbors ==
    (Uncapped /\ n_recurse_neighbors = 1)
    => /\ Range(it.indices) = {index} \cup Neighbors(indices, index)
       /\ NoDuplicates(it.indices)

\* a depth-1 call on a seed that has neighbors and is not its own neighbor
C5_Witness ==
    /\ Uncapped
    /\ n_recurse_neighbors = 1
    /\ Neighbors(indices, index) # {}
    /\ index \notin Neighbors(indices, index)
    /\ index \in Range(it.indices)

\* C6: without a cap the result for depth d > 1 contains the result for
\* depth d - 1.
C6_MonotoneInDepth ==
    (Uncapped /\ n_recurse_neighbors > 1)
    => \A r \in GetIterativeIndices(indices, index,
                                    n_recurse_neighbors - 1, None) :
            Range(r) \subseteq Range(it.indices)

\* a depth-2 result that is strictly larger than the depth-1 result
C6_Witness ==
    /\ Uncapped
    /\ n_recurse_neighbors = 2
    /\ \E r \in GetIterativeIndices(indices, index, 1, None) :
            Range(r) # Range(it.indices) /\ Range(r) \subseteq Range(it.indices)

\* C7: with a cap smaller than the uncapped closure every outcome has
\* exactly max_neighs distinct elements, all of the uncapped closure;
\* a closure of at most max_neighs elements is returned unchanged.
C7_CapRespected ==
    (it.status = "ok" /\ max_neighs # None) =>
        LET full == Within(indices, index, n_recurse_neighbors)
        IN  IF max_neighs[1] < Cardinality(full)
            THEN /\ Len(it.indices) = max_neighs[1]
                 /\ NoDuplicates(it.indices)
                 /\ Range(it.indices) \subseteq full
            ELSE it.indices = SortedSeqOf(full)

\* a closure that fits the cap has come back whole
C7_WitnessUnchanged ==
    /\ it.status = "ok"
    /\ max_neighs # None
    /\ Cardinality(Within(indices, index, n_recurse_neighbors)) = max_neighs[1]
    /\ Len(it.indices) = max_neighs[1]

\* a capped call that dropped the seed from a closure of three cells
C7_Witness ==
    /\ it.status = "ok"
    /\ max_neighs = Some(2)
    /\ Cardinality(Within(indices, index, n_recurse_neighbors)) = 3
    /\ Len(it.indices) = 2
    /\ index \notin Range(it.indices)

(***************************************************************************)
(* geometric_matrix_sum(C, n_power).  A matrix is a sequence of rows.      *)
(***************************************************************************)
Matrices == [1..Dim -> [1..Dim -> 0..MaxEntry]]

\* An array whose elements are computed once (TLC would otherwise compute
\* an element of a function expression anew at every use).
Row(r) == SubSeq(r, 1, Len(r))
Array(A) == SubSeq([i \in DOMAIN A |-> Row(A[i])], 1, Len(A))

\* A + B, elementwise
Add(A, B) ==
    Array([i \in DOMAIN A |-> [j \in DOMAIN A[i] |-> A[i][j] + B[i][j]]])

\* sum over k' <= k of A[i][k'] * B[k'][j]
RECURSIVE DotEntry(_, _, _, _, _)
DotEntry(A, B, i, j, k) ==
    IF k = 0 THEN 0 ELSE DotEntry(A, B, i, j, k - 1) + A[i][k] * B[k][j]

\* A.dot(B) for two matrices
Dot(A, B) ==
    Array([i \in DOMAIN A |-> [j \in DOMAIN B[1] |->
            DotEntry(A, B, i, j, Len(B))]])

\* A.dot(c) for a scalar c
DotScalar(A, c) ==
    Array([i \in DOMAIN A |-> [j \in DOMAIN A[i] |-> A[i][j] * c]])

\* geometric_matrix_sum that stops at the square of C
GeometricMatrixSum_two_terms(M, n) ==
    IF n > 1 THEN Add(M, Dot(M, M)) ELSE Add(M, DotScalar(M, 0))

\* C_n = geometric_matrix_sum(C, n_power - 1) if n_power > 2
\*       else C if n_power > 1 else 0;  return C + C.dot(C_n)
RECURSIVE GeometricMatrixSum(_, _)
GeometricMatrixSum(M, n) ==
    IF n > 2 THEN Add(M, Dot(M, GeometricMatrixSum(M, n - 1)))
    ELSE IF n > 1 THEN Add(M, Dot(M, M))
    ELSE Add(M, DotScalar(M, 0))

InitGMS ==
    /\ IdleGI /\ IdleIT /\ IdleGTB /\ IdlePP
    /\ C \in Matrices
    /\ n_power = 0
    /\ gms = [status |-> "none", value |-> None]

\* geometric_matrix_sum(C, n)
CallGeometricMatrixSum ==
    /\ gms.status = "none"
    /\ \E n \in 1..MaxPower :
        /\ n_power' = n
        /\ gms' = [status |-> "ok", value |-> GeometricMatrixSum(C, n)]
    /\ UNCHANGED <<C, gi_vars, it_vars, gtb_vars, pp_vars>>

NextGMS == CallGeometricMatrixSum

SpecGMS == InitGMS /\ [][NextGMS]_vars

(***************************************************************************)
(* Properties of geometric_matrix_sum, checked under SpecGMS.              *)
(***************************************************************************)
\* the n-th power of M, by repeated multiplication from the right
RECURSIVE MatPow(_, _)
MatPow(M, n) == IF n = 1 THEN M ELSE Dot(MatPow(M, n - 1), M)

\* M + M^2 + ... + M^n
RECURSIVE SumOfPowers(_, _)
SumOfPowers(M, n) ==
    IF n = 1 THEN M ELSE Add(SumOfPowers(M, n - 1), MatPow(M, n))

\* C8: the result is C + C^2 + ... + C^n_power; for n_power = 1 it is C.
C8_SumOfPowers ==
    gms.status = "ok" =>
        /\ gms.value = SumOfPowers(C, n_power)
        /\ n_power = 1 => gms.value = C

\* a call with n_power = 3 whose cube does not vanish
C8_Witness ==
    /\ gms.status = "ok"
    /\ n_power = 3
    /\ gms.value # Add(C, Dot(C, C))

\* C9 as stated: for n > 1 the result equals S + C.S, where S is the
\* result for n - 1.
C9_RecurrenceDoubling ==
    (gms.status = "ok" /\ n_power > 1) =>
        LET S == GeometricMatrixSum(C, n_power - 1)
        IN  gms.value = Add(S, Dot(C, S))

\* C9 as amended: for n > 1 the result equals C + C.S, where S is the
\* result for n - 1.
C9_Recurrence ==
    (gms.status = "ok" /\ n_power > 1) =>
        LET S == GeometricMatrixSum(C, n_power - 1)
        IN  gms.value = Add(C, Dot(C, S))

\* a call with n_power = 4 whose result differs from the one for 3
C9_Witness ==
    /\ gms.status = "ok"
    /\ n_power = 4
    /\ gms.value # GeometricMatrixSum(C, 3)

(***************************************************************************)
(* groups_to_bool(adata, groups, groupby) for a list of group names.       *)
(* adata.obs maps each per-cell attribute it holds to a value per cell.    *)
(***************************************************************************)
ObsKeys == {"cell_type", "clusters", "louvain"}
Labels == {"a", "b"}
Obs == UNION {[K -> [1..NObs -> Labels]] : K \in SUBSET ObsKeys}
GroupbyArgs == {None} \cup {Some(k) : k \in ObsKeys \cup {"batch"}}

\* the fallback chain trying "louvain" before "clusters"
ChooseGroupby_louvain_first(keys, gb) ==
    IF gb # None /\ gb[1] \in keys THEN gb
    ELSE IF "louvain" \in keys THEN Some("louvain")
    ELSE IF "clusters" \in keys THEN Some("clusters")
    ELSE None

\* groupby if groupby in adata.obs.keys() else "clusters" if ... else
\* "louvain" if ... else None
ChooseGroupby(keys, gb) ==
    IF gb # None /\ gb[1] \in keys THEN gb
    ELSE IF "clusters" \in keys THEN Some("clusters")
    ELSE IF "louvain" \in keys THEN Some("louvain")
    ELSE None

\* the outcome of groups_to_bool(ad, gs, gb)
GroupsToBool(ad, gs, gb) ==
    LET chosen == ChooseGroupby(DOMAIN ad.obs, gb)
    IN  IF chosen # None
        THEN [status |-> "ok",
              value |-> [i \in 1..NObs |-> ad.obs[chosen[1]][i] \in gs]]
        ELSE [status |-> "ValueError", value |-> None]

InitGTB ==
    /\ IdleGI /\ IdleIT /\ IdleGMS /\ IdlePP
    /\ adata \in [obs : Obs]
    /\ groups = {}
    /\ groupby = None
    /\ gtb = [status |-> "none", value |-> None]

\* groups_to_bool(adata, gs, gb)
CallGroupsToBool ==
    /\ gtb.status = "none"
    /\ \E gs \in SUBSET Labels, gb \in GroupbyArgs :
        /\ groups' = gs
        /\ groupby' = gb
        /\ gtb' = GroupsToBool(adata, gs, gb)
    /\ UNCHANGED <<adata, gi_vars, it_vars, gms_vars, pp_vars>>

NextGTB == CallGroupsToBool

SpecGTB == InitGTB /\ [][NextGTB]_vars

(***************************************************************************)
(* Properties of groups_to_bool, checked under SpecGTB.                    *)
(***************************************************************************)
Has(k) == k \in DOMAIN adata.obs

\* what a finished call must have returned or raised
GroupsToBoolPost ==
    LET used == IF groupby # None /\ Has(groupby[1]) THEN groupby[1]
                ELSE IF Has("clusters") THEN "clusters" ELSE "louvain"
    IN  IF (groupby = None \/ ~Has(groupby[1]))
            /\ ~Has("clusters") /\ ~Has("louvain")
        THEN gtb = [status |-> "ValueError", value |-> None]
        ELSE /\ gtb.status = "ok"
             /\ Len(gtb.value) = NObs
             /\ \A i \in 1..NObs :
                    gtb.value[i] <=> (adata.obs[used][i] \in groups)

\* C10: the attribute used is groupby if adata.obs holds it, else
\* "clusters" if held, else "louvain" if held; with none of the three the
\* call raises ValueError and returns no mask; otherwise it returns one
\* boolean per cell, true exactly for the cells whose value is among the
\* groups; the container is left as it was.
C10_GroupsToBool ==
    [][gtb'.status # "none" => (GroupsToBoolPost' /\ adata' = adata)]_vars

\* a call whose groupby is not held fell back to "clusters" although
\* "louvain" is held too and selects other cells
C10_Witness ==
    /\ gtb.status = "ok"
    /\ groupby = Some("batch")
    /\ Has("clusters") /\ Has("louvain")
    /\ groups = {"a"}
    /\ gtb.value = [i \in 1..NObs |-> adata.obs["clusters"][i] = "a"]
    /\ gtb.value # [i \in 1..NObs |-> adata.obs["louvain"][i] = "a"]

\* a call on a container holding none of the attributes raised
C10_WitnessError ==
    /\ gtb.status = "ValueError"
    /\ groupby = Some("batch")
    /\ DOMAIN adata.obs = {}

(***************************************************************************)
(* filter_genes(data, min_counts, ..., max_cells_u, copy) of               *)
(* scvelo/preprocessing/utils.py.  The container holds the matrix X, its   *)
(* layers, the per-cell table obs and the gene names var.  A matrix is     *)
(* the sequence of its gene columns, each the sequence of the counts of    *)
(* the gene in the cells; X holds the spliced counts, as the layer         *)
(* "spliced" does.  The per-gene annotations that scanpy's filter writes   *)
(* (n_counts, n_cells) are left out.                                       *)
(***************************************************************************)
NGenes == 2     \* genes (columns) of the container
MaxX == 1       \* largest spliced count of a gene in a cell
MaxU == 2       \* largest unspliced count of a gene in a cell
MaxArg == 1     \* largest threshold passed to filter_genes

GeneColumns(maxv) == [1..NGenes -> [1..NObs -> 0..maxv]]

\* the containers with spliced counts up to maxx, unspliced up to maxu
Containers(maxx, maxu) ==
    {[X |-> x, layers |-> [spliced |-> x, unspliced |-> u], obs |-> << >>,
      var |-> [g \in 1..NGenes |-> g]] :
        x \in GeneColumns(maxx), u \in GeneColumns(maxu)}

\* M.sum(0): the total count of every gene
Sum0(M) == [g \in DOMAIN M |-> SumSeq(M[g])]
\* M.sum(1): the total count of every cell
Sum1(M) == [c \in 1..NObs |-> SumSeq([g \in DOMAIN M |-> M[g][c]])]
\* M > 0: 1 (True) where the count is positive
Positive(M) ==
    [g \in DOMAIN M |-> [c \in DOMAIN M[g] |-> IF M[g][c] > 0 THEN 1 ELSE 0]]

\* adata._inplace_subset_var(mask): keep the genes whose mask entry is True
InplaceSubsetVar(ad, mask) ==
    LET keep == SortedSeqOf({g \in DOMAIN mask : mask[g]})
        Sub(M) == [j \in DOMAIN keep |-> M[keep[j]]]
    IN  [ad EXCEPT !.X = Sub(ad.X),
                   !.layers = [k \in DOMAIN ad.layers |-> Sub(ad.layers[k])],
                   !.var = Sub(ad.var)]

\* set_initial_size(adata): the cell sizes of both layers go into obs
SetInitialSize(ad) ==
    IF {"spliced", "unspliced"} \subseteq DOMAIN ad.layers
    THEN [ad EXCEPT !.obs =
            ("initial_size_spliced" :> Sum1(ad.layers.spliced)
             @@ "initial_size_unspliced" :> Sum1(ad.layers.unspliced)
             @@ ad.obs)]
    ELSE ad

\* scanpy's filter_genes(adata, <name> = v) with exactly one threshold given:
\* a gene passes on its total count in X (min_counts, max_counts) or on the
\* number of cells with a positive count in X (min_cells, max_cells).
ScanpyFilterGenes(ad, name, v) ==
    LET number == IF name \in {"min_counts", "max_counts"}
                  THEN Sum0(ad.X) ELSE Sum0(Positive(ad.X))
        subset == [g \in DOMAIN number |->
                     IF name \in {"min_counts", "min_cells"}
                     THEN number[g] >= v ELSE number[g] <= v]
    IN  InplaceSubsetVar(ad, subset)

\* if <name> is not None: filter_genes(adata, <name> = <value>)
IfGiven(ad, a, name) ==
    IF a[name] # None THEN ScanpyFilterGenes(ad, name, a[name][1]) ELSE ad

\* filter_genes_u(adata, min_counts_u, min_cells_u, max_counts_u,
\* max_cells_u): the inner function of filter_genes; -inf and inf are a
\* bound that every count passes
FilterGenesU(ad, min_counts_u, min_cells_u, max_counts_u, max_cells_u) ==
    LET layer == ad.layers.unspliced
        counts == IF min_counts_u # None /\ max_counts_u = None
                  THEN Sum0(layer) ELSE Sum0(Positive(layer))
        lb == IF min_counts_u # None THEN min_counts_u
              ELSE IF min_cells_u # None THEN min_cells_u ELSE None
        ub == IF max_counts_u # None THEN max_counts_u
              ELSE IF max_cells_u # None THEN max_cells_u ELSE None
    IN  InplaceSubsetVar(ad,
            [g \in DOMAIN counts |->
                /\ (lb # None => lb[1] <= counts[g])
                /\ (ub # None => counts[g] <= ub[1])])

\* the body of filter_genes on the container adata it works on
FilterGenes(ad, a) ==
    LET a0 == SetInitialSize(ad)
        a1 == IfGiven(a0, a, "min_counts")
        a2 == IfGiven(a1, a, "max_counts")
        a3 == IfGiven(a2, a, "min_cells")
        a4 == IfGiven(a3, a, "max_cells")
        a5 == IF a.min_counts_u # None \/ a.max_counts # None
              THEN FilterGenesU(a4, a.min_counts_u, None, a.max_counts_u, None)
              ELSE a4
        a6 == IF a.min_cells_u # None \/ a.max_cells_u # None
              THEN FilterGenesU(a5, None, a.min_cells_u, None, a.max_cells_u)
              ELSE a5
    IN  IF "unspliced" \in DOMAIN ad.layers THEN a6 ELSE a4

Thresholds == {None} \cup {Some(v) : v \in 1..MaxArg}
FilterArgNames ==
    {"min_counts", "min_cells", "max_counts", "max_cells",
     "min_counts_u", "min_cells_u", "max_counts_u", "max_cells_u"}
FilterArgs == [FilterArgNames -> Thresholds]

InitFG ==
    /\ fg_data \in Containers(MaxX, MaxU)
    /\ fg_call = None
    /\ fg = [status |-> "none", value |-> None]
    /\ IdleTools /\ IdleFGD /\ IdleCU

\* filter_genes(data, **a, copy = copy)
CallFilterGenes ==
    /\ fg.status = "none"
    /\ \E a \in FilterArgs, copy \in BOOLEAN :
        LET out == FilterGenes(fg_data, a)
        IN  /\ fg_call' = [args |-> a, copy |-> copy, data |-> fg_data]
            /\ fg_data' = IF copy THEN fg_data ELSE out
            /\ fg' = [status |-> "ok", value |-> IF copy THEN out ELSE None]
    /\ UNCHANGED <<gi_vars, it_vars, gms_vars, gtb_vars, fgd_vars, cu_vars>>

NextFG == CallFilterGenes

SpecFG == InitFG /\ [][NextFG]_vars

(***************************************************************************)
(* Properties of filter_genes, checked under SpecFG.                       *)
(***************************************************************************)
\* the container that holds the outcome of the call
Filtered == IF fg_call.copy THEN fg.value ELSE fg_data
\* the total unspliced count that gene g had in the container passed in
TotalUnspliced(g) == SumSeq(fg_call.data.layers.unspliced[g])
WithinCountsU(g) ==
    /\ fg_call.args.min_counts_u # None =>
          TotalUnspliced(g) >= fg_call.args.min_counts_u[1]
    /\ fg_call.args.max_counts_u # None =>
          TotalUnspliced(g) <= fg_call.args.max_counts_u[1]

\* C11: after filter_genes on data with an "unspliced" layer, every gene
\* that remains has a total unspliced count of at least min_counts_u when
\* that is given and of at most max_counts_u when that is given, so that
\* every gene violating a given bound is removed.
C11_UnsplicedCountBounds ==
    fg.status = "ok" =>
        \A g \in Range(Filtered.var) : WithinCountsU(g)

(***************************************************************************)
(* filter_genes_dispersion(data, flavor = "svr", n_top_genes, copy).  The  *)
(* score of a gene is the residual of its log coefficient of variation     *)
(* against a support-vector regression on the log mean: the regression is  *)
(* sklearn's, so the scores of a call are any numbers, one per gene.  The  *)
(* logarithms are finite only for a gene whose counts in X have a positive *)
(* mean and a positive standard deviation, that is a gene whose counts are *)
(* not all equal.                                                          *)
(***************************************************************************)
MaxScore == 2   \* largest score of a gene
MaxTop == 2     \* largest n_top_genes

\* log_mu and log_cv of every gene are finite
Scorable(ad) ==
    \A g \in DOMAIN ad.X : \E c, e \in DOMAIN ad.X[g] : ad.X[g][c] # ad.X[g][e]

Scores(ad) == [DOMAIN ad.X -> 0..MaxScore]

\* np.sort(score)[::-1]: the scores in descending order
SortDescending(score) ==
    CHOOSE srt \in [DOMAIN score -> Range(score)] :
        /\ \A j \in DOMAIN srt : j + 1 \in DOMAIN srt => srt[j] >= srt[j + 1]
        /\ \A v \in Range(score) :
              Cardinality({j \in DOMAIN srt : srt[j] = v})
                  = Cardinality({g \in DOMAIN score : score[g] = v})

\* nth_score = np.sort(score)[::-1][n_top_genes], a 0-based offset
NthScore(score, n) == SortDescending(score)[n + 1]

\* the body of filter_genes_dispersion with flavor "svr" on the container
\* adata it works on, given the scores of the regression
FilterGenesDispersion(ad, score, n_top_genes) ==
    LET a0 == SetInitialSize(ad)
    IN  IF n_top_genes # None /\ n_top_genes[1] < Len(a0.var)
        THEN InplaceSubsetVar(a0,
                [g \in DOMAIN score |->
                    score[g] >= NthScore(score, n_top_genes[1])])
        ELSE a0

TopArgs == {None} \cup {Some(n) : n \in 1..MaxTop}

InitFGD ==
    /\ fgd_data \in {ad \in Containers(MaxX, MaxU) : Scorable(ad)}
    /\ fgd_call = None
    /\ fgd = [status |-> "none", value |-> None]
    /\ IdleTools /\ IdleFG /\ IdleCU

\* filter_genes_dispersion(data, flavor = "svr", n_top_genes = n, copy = copy)
CallFilterGenesDispersion ==
    /\ fgd.status = "none"
    /\ \E n \in TopArgs, copy \in BOOLEAN, score \in Scores(fgd_data) :
        LET out == FilterGenesDispersion(fgd_data, score, n)
        IN  /\ fgd_call' = [n_top_genes |-> n, copy |-> copy, score |-> score,
                            data |-> fgd_data]
            /\ fgd_data' = IF copy THEN fgd_data ELSE out
            /\ fgd' = [status |-> "ok", value |-> IF copy THEN out ELSE None]
    /\ UNCHANGED <<gi_vars, it_vars, gms_vars, gtb_vars, fg_vars, cu_vars>>

NextFGD == CallFilterGenesDispersion

SpecFGD == InitFGD /\ [][NextFGD]_vars

(***************************************************************************)
(* Properties of filter_genes_dispersion, checked under SpecFGD.           *)
(***************************************************************************)
\* the genes that remain after the call
Remaining == Range((IF fgd_call.copy THEN fgd.value ELSE fgd_data).var)
GenesBefore == Range(fgd_call.data.var)
Selects == fgd_call.n_top_genes # None
              /\ fgd_call.n_top_genes[1] < Cardinality(GenesBefore)

\* C12: with flavor "svr" and n_top_genes = n smaller than the number of
\* genes exactly n genes remain and no removed gene has a higher score than
\* a remaining one; with n_top_genes None or not smaller than the number of
\* genes no gene is removed.
C12_KeepsNTopGenes ==
    fgd.status = "ok" =>
        IF Selects
        THEN /\ Cardinality(Remaining) = fgd_call.n_top_genes[1]
             /\ \A g \in Remaining, h \in GenesBefore \ Remaining :
                    fgd_call.score[g] >= fgd_call.score[h]
        ELSE Remaining = GenesBefore

(***************************************************************************)
(* cleanup(data, clean, keep, copy).  The container has the four attribute *)
(* stores obs, var, uns and layers, each a mapping from keys to values.  A *)
(* key is a Python string, here the sequence of its characters.  keep is a *)
(* string or a collection of strings, and Python's "in" is the substring   *)
(* test on the one and membership in the other: keep.value is the set of   *)
(* the strings given and keep.str tells that it was one string, not a      *)
(* collection.  clean is the set of the                                    *)
(* store names it names: none of "obs", "var", "uns", "layers" and "all"   *)
(* is a substring of another, so a string names just itself.               *)
(***************************************************************************)
spliced == <<"s", "p", "l", "i", "c", "e", "d">>
unspliced == <<"u", "n">> \o spliced
Keys == {spliced, unspliced}
Stores == {"obs", "var", "uns", "layers"}

\* the value that store s holds under key k before the call
ValueOf(s, k) == <<s, k>>
CleanupContainers ==
    {[s \in Stores |-> [k \in ks[s] |-> ValueOf(s, k)]] :
        ks \in [Stores -> SUBSET Keys]}

\* a in b for two Python strings
IsSubstring(a, b) ==
    \E i \in 1..(Len(b) - Len(a) + 1) : SubSeq(b, i, i + Len(a) - 1) = a

\* key in keep
InKeep(key, keep) ==
    IF keep.str
    THEN \E given \in keep.value : IsSubstring(key, given)
    ELSE key \in keep.value

\* for key in list(store.keys()): if key not in keep: del store[key]
DeleteUnkept(store, keep) ==
    [k \in {key \in DOMAIN store : InKeep(key, keep)} |-> store[k]]

\* the body of cleanup on the container adata it works on
Cleanup(ad, clean, keep) ==
    [s \in Stores |->
        IF s \in clean \/ "all" \in clean
        THEN DeleteUnkept(ad[s], keep) ELSE ad[s]]

CleanArgs == SUBSET (Stores \cup {"all"})
KeepArgs ==
    {[str |-> TRUE, value |-> {k}] : k \in Keys}
        \cup {[str |-> FALSE, value |-> K] : K \in SUBSET Keys}

InitCU ==
    /\ cu_data \in CleanupContainers
    /\ cu_call = None
    /\ cu = [status |-> "none", value |-> None]
    /\ IdleTools /\ IdleFG /\ IdleFGD

\* cleanup(data, clean, keep, copy)
CallCleanup ==
    /\ cu.status = "none"
    /\ \E clean \in CleanArgs, keep \in KeepArgs, copy \in BOOLEAN :
        LET out == Cleanup(cu_data, clean, keep)
        IN  /\ cu_call' = [clean |-> clean, keep |-> keep, copy |-> copy,
                           data |-> cu_data]
            /\ cu_data' = IF copy THEN cu_data ELSE out
            /\ cu' = [status |-> "ok", value |-> IF copy THEN out ELSE None]
    /\ UNCHANGED <<gi_vars, it_vars, gms_vars, gtb_vars, fg_vars, fgd_vars>>

NextCU == CallCleanup

SpecCU == InitCU /\ [][NextCU]_vars

(***************************************************************************)
(* Properties of cleanup, checked under SpecCU.                            *)
(***************************************************************************)
\* the container that holds the outcome of the call
Cleaned == IF cu_call.copy THEN cu.value ELSE cu_data
\* the keys that keep names
Kept == cu_call.keep.value
NamedByClean(s) == s \in cu_call.clean \/ "all" \in cu_call.clean
ReturnsAsCopySays ==
    IF cu_call.copy
    THEN cu_data = cu_call.data
    ELSE cu.value = None

\* C13: after cleanup(data, clean, keep, copy) every store that clean names
\* holds exactly its keys that are in keep, with their values, every other
\* store is unchanged, and with copy the input is unmodified and the cleaned
\* copy is returned, without copy the input is cleaned in place and None is
\* returned.
C13_DeletesExactlyUnkept ==
    cu.status = "ok" =>
        /\ \A s \in Stores :
              IF NamedByClean(s)
              THEN /\ DOMAIN Cleaned[s] = DOMAIN cu_call.data[s] \cap Kept
                   /\ \A k \in DOMAIN Cleaned[s] :
                         Cleaned[s][k] = cu_call.data[s][k]
              ELSE Cleaned[s] = cu_call.data[s]
        /\ ReturnsAsCopySays

(***************************************************************************)
(* Rows without entries and stored zeros in get_indices.  The rows without *)
(* entries are checked under SpecGI, the stored zeros under SpecZero: one  *)
(* call on a matrix whose stored distances are zero or the largest         *)
(* distance.                                                               *)
(***************************************************************************)
ZeroOrFarRows == UNION {[1..d -> {0, MaxDist}] : d \in 0..MaxDeg}
ZeroOrFarMatrices == {CsrOfRows(rv) : rv \in [1..NCells -> ZeroOrFarRows]}

InitZero ==
    /\ dist \in ZeroOrFarMatrices
    /\ n_neighbors = None
    /\ gi = NotCalled
    /\ gi2 = NotCalled
    /\ IdleIT /\ IdleGMS /\ IdleGTB /\ IdlePP

NextZero == CallGetIndices

SpecZero == InitZero /\ [][NextZero]_vars

\* min(n_neighbors, smallest number of stored entries of a row)
KEff ==
    IF n_neighbors = None \/ MinDeg(dist) < n_neighbors[1]
    THEN MinDeg(dist) ELSE n_neighbors[1]
EmptyRows(M) == {i \in 1..NRows(M) : RowDeg(M, i) = 0}
ZeroPos(M, i) == {j \in 1..RowDeg(M, i) : ValAt(M, i, j) = 0}

\* C14: when the distance matrix has a row with no stored entries the call
\* yields a result in which that row has zero neighbors: it returns, the
\* pruned matrix stores nothing in that row and the row of the index matrix
\* is empty.
C14_EmptyRowYieldsZeroNeighbors ==
    (Called /\ EmptyRows(dist) # {}) =>
        /\ gi.status = "ok"
        /\ \A i \in EmptyRows(dist) :
              RowDeg(gi.D, i) = 0 /\ gi.indices[i] = << >>

\* C15: a stored distance of zero is an entry like any other.  It counts
\* towards the stored entries of its row, so a call on rows that all store
\* something returns; every row keeps exactly KEff entries, as many stored
\* zeros among them as fit, and no removed entry is closer than a kept one;
\* a kept zero is still stored with value zero and its column is in the row
\* of the index matrix.
C15_StoredZeroIsAnEntry ==
    Called =>
        LET keff == KEff
        IN  /\ MinDeg(dist) >= 1 => gi.status = "ok"
            /\ gi.status = "ok" =>
                \A i \in 1..NCells :
                    LET kept == KeptPos(dist, gi.D, i)
                        cut == {j \in 1..RowDeg(dist, i) : j \notin kept}
                        zeros == ZeroPos(dist, i)
                    IN  /\ RowDeg(gi.D, i) = keff
                        /\ Cardinality(kept) = keff
                        /\ Cardinality(kept \cap zeros) =
                              (IF Cardinality(zeros) < keff
                               THEN Cardinality(zeros) ELSE keff)
                        /\ \A j \in kept : \A h \in cut :
                              ValAt(dist, i, j) <= ValAt(dist, i, h)
                        /\ \A j \in kept \cap zeros :
                              \E s \in 1..keff :
                                  /\ ColAt(gi.D, i, s) = ColAt(dist, i, j)
                                  /\ ValAt(gi.D, i, s) = 0
                                  /\ gi.indices[i][s] = ColAt(dist, i, j)

\* a row storing a positive distance before a zero has been pruned to the
\* zero, which is still stored
C15_Witness ==
    /\ gi.status = "ok"
    /\ n_neighbors = Some(1)
    /\ RowDeg(dist, 1) = 2
    /\ ValAt(dist, 1, 1) > 0
    /\ ValAt(dist, 1, 2) = 0
    /\ RowDeg(gi.D, 1) = 1
    /\ ValAt(gi.D, 1, 1) = 0
    /\ gi.indices[1] = <<ColAt(dist, 1, 2)>>

(***************************************************************************)
(* The arguments of get_indices and get_iterative_indices after a call.    *)
(* A behaviour of SpecFrame starts from a distance matrix (of SpecZero) or *)
(* from a neighbor table and makes one call on it; the capped calls are    *)
(* made on the full tables, as in SpecCap.                                 *)
(***************************************************************************)
InitFrame == InitZero \/ InitIT

FrameGetIndices == indices = << >> /\ CallGetIndices
FrameGetIterativeIndices == indices # << >> /\ CallGetIterativeIndices
FrameGetIterativeIndicesCapped ==
    indices \in FullTables /\ CallGetIterativeIndicesCapped

NextFrame ==
    \/ FrameGetIndices
    \/ FrameGetIterativeIndices
    \/ FrameGetIterativeIndicesCapped

SpecFrame == InitFrame /\ [][NextFrame]_vars

C16_WitnessCapped ==
    /\ it.status = "ok"
    /\ max_neighs # None
    /\ indices \in FullTables
    /\ Len(it.indices)
          < Cardinality(Within(indices, index, n_recurse_neighbors))
====
